---- MODULE Spec2Model ----
(***************************************************************************)
(* Model of build.py: the ambientCG texture library builder.               *)
(*                                                                         *)
(* Strings that the program takes apart are modelled as sequences of       *)
(* tokens, so that str.endswith, str.split("=")[-1], content[0:2] and      *)
(* re.sub are computed and not assumed:                                    *)
(*   a file name   "x_Color.jpg"        is <<"x_", "Color", ".", "jpg">>   *)
(*   a url         "https://h/get?file=W1.zip"                             *)
(*                                      is <<"get?file", "W1.zip">>        *)
(*                 (the segments between the "=" signs)                    *)
(*   a payload     b"PK\x03\x04..."     is <<"P", "K", ...>>               *)
(*   an attribute  "2K-JPG"             is <<2, "K-", "JPG">>              *)
(* Python's None and the empty string are both falsy; both are <<>>.       *)
(***************************************************************************)
EXTENDS Integers, Sequences, FiniteSets, TLC

VARIABLES
    remote,           \* the remote catalog: its pages, in offset order
    options,          \* argparse namespace of the run (build.py 282-291)
    pc,               \* position of the run in build_texture_lib
    exit_status,      \* process exit status once the run has ended, else -1
    offset,           \* fetch_catalog_data: offset
    last_fetch_count, \* fetch_catalog_data: last_fetch_count
    page,             \* fetch_catalog_data: json_data["foundAssets"]
    idx,              \* position of the for loop of line 174 in page
    quality,          \* get_asset_zip_url: quality of the current invocation
    ret,              \* value get_asset_zip_url returned to get_asset_data
    catalog_data,     \* the list of entries (fetch_catalog_data, then passes)
    requests_log,     \* offsets of the catalog requests sent, in order
    probes,           \* qualities probed for the current asset, in order
    resolve_log,      \* outcome of every get_asset_data call, in order
    di,               \* download_images: index of the current entry
    retry,            \* download_images: retry
    dl_log,           \* outcome of every download_image call, in order
    originals,        \* files under ORIGINAL_IMAGES_PATH: path -> content
    dirs,             \* category directories under ORIGINAL_IMAGES_PATH
    zip_list,         \* unzip_images: the archives still to visit, in order
    unzip_log,        \* the archives unzip_image extracted, in order
    textures,         \* destination directories made under TEXTURES_PATH
    version_writes,   \* number of write_version calls of the run
    runs              \* number of runs started so far

vars == << remote, options, pc, exit_status, offset, last_fetch_count, page, idx,
           quality, ret, catalog_data, requests_log, probes, resolve_log,
           di, retry, dl_log, originals, dirs, zip_list, unzip_log,
           textures, version_writes, runs >>

-----------------------------------------------------------------------------
(* Bounds of the model *)

\* records per page of the remote catalog at most
MaxPageLen == 1
\* pages the remote catalog holds at most (later pages are empty)
MaxPages == 2
\* file names in the zipContent of a download option at most
MaxContents == 2
\* runs started at most (a killed run may be followed by a new one)
MaxRuns == 2

(* Program constants *)

JSON_BATCH_SIZE == 100
\* a fallback search that goes one quality further than line 103 allows
MAX_QUALITY_AND_ONE == 16 + 1
MAX_QUALITY == 16
MAX_RETRY == 2

None == << >>

Truthy(x) == x # None

Min(a, b) == IF a < b THEN a ELSE b
Max(a, b) == IF a > b THEN a ELSE b

-----------------------------------------------------------------------------
(* str.upper / str.lower on the image types "jpg", "JPG", "png", "PNG" *)

Upper(s) == IF s \in {"jpg", "JPG"} THEN "JPG" ELSE "PNG"

Lower(s) == IF s \in {"jpg", "JPG"} THEN "jpg" ELSE "png"

(* str.endswith *)
EndsWith(filename, suffix) ==
    /\ Len(suffix) <= Len(filename)
    /\ SubSeq(filename, Len(filename) - Len(suffix) + 1, Len(filename)) = suffix

(* itertools.product(a, b): the pairs, the first component varying slowest *)
Product(a, b) ==
    [k \in 1..(Len(a) * Len(b)) |->
        << a[((k - 1) \div Len(b)) + 1], b[((k - 1) % Len(b)) + 1] >>]

(* the same pairs with the second component varying slowest: the order a
   scan by suffix priority would use *)
ProductBySuffix(a, b) ==
    [k \in 1..(Len(a) * Len(b)) |->
        << a[((k - 1) % Len(a)) + 1], b[((k - 1) \div Len(a)) + 1] >>]

(* check_file scanning by suffix priority: the first suffix of the list that
   some file name ends with decides *)
check_file_by_suffix(zip_content, endswith_strings) ==
    LET pairs == ProductBySuffix(zip_content, endswith_strings)
        hits  == {k \in DOMAIN pairs : EndsWith(pairs[k][1], pairs[k][2])}
    IN  IF hits = {} THEN None
        ELSE pairs[CHOOSE k \in hits : \A j \in hits : k <= j][1]

(* check_file that keeps scanning after a match: the last match is returned *)
check_file_last(zip_content, endswith_strings) ==
    LET pairs == Product(zip_content, endswith_strings)
        hits  == {k \in DOMAIN pairs : EndsWith(pairs[k][1], pairs[k][2])}
    IN  IF hits = {} THEN None
        ELSE pairs[CHOOSE k \in hits : \A j \in hits : k >= j][1]

(* check_file: the file name of the first pair whose name ends with its suffix *)
check_file(zip_content, endswith_strings) ==
    LET pairs == Product(zip_content, endswith_strings)
        hits  == {k \in DOMAIN pairs : EndsWith(pairs[k][1], pairs[k][2])}
    IN  IF hits = {} THEN None
        ELSE pairs[CHOOSE k \in hits : \A j \in hits : k <= j][1]

(* f"{quality}K-{type_attr_ext}" *)
TypeAttribute(q, image_type) == << q, "K-", Upper(image_type) >>

(* the candidate suffixes of line 90 *)
ImageNames(image_type) ==
    LET type_ext == Lower(image_type)
    IN  << << "Color", ".", type_ext >>,
           << "Normal", ".", type_ext >>,
           << "Normal", ".", "png" >>,
           << "var1", ".", type_ext >> >>

(* download.get("zipContent", []) *)
ZipContent(download) ==
    IF "zipContent" \in DOMAIN download THEN download.zipContent ELSE << >>

(* asset["downloadFolders"]["default"]["downloadFiletypeCategories"]["zip"]["downloads"] *)
Downloads(asset) == asset.downloads

(* the file check_file finds in one download option *)
ImageFilename(download, image_type) ==
    check_file(ZipContent(download), ImageNames(image_type))

(* The for loop of lines 88-101 at one quality: the link and the file of the
   first option with the attribute and a truthy image file, else <<None, None>> *)
ScanDownloads(asset, image_type, q) ==
    LET downloads == Downloads(asset)
        hits == {k \in DOMAIN downloads :
                    /\ downloads[k].attribute = TypeAttribute(q, image_type)
                    /\ Truthy(ImageFilename(downloads[k], image_type))}
    IN  IF hits = {} THEN << None, None >>
        ELSE LET k == CHOOSE i \in hits : \A j \in hits : i <= j
             IN  << downloads[k].downloadLink,
                    ImageFilename(downloads[k], image_type) >>

-----------------------------------------------------------------------------
(* Comparison of strings, as Python's < on str: lexicographic over the code
   points.  Names are token sequences; the tokens used here are such that no
   token is a prefix of another, so comparing token by token agrees with
   comparing character by character.  Ord gives the code point of a token's
   first character that decides the comparison. *)

Ord(t) ==
    CASE t = ".zip"    -> 46
      [] t = "1"       -> 49
      [] t = "2"       -> 50
      [] t = "Terrain" -> 84
      [] t = "Wood"    -> 87
      [] t = "a"       -> 97
      [] t = "b"       -> 98

RECURSIVE StrLess(_, _)
StrLess(s, t) ==
    IF t = << >> THEN FALSE
    ELSE IF s = << >> THEN TRUE
    ELSE IF Ord(Head(s)) # Ord(Head(t)) THEN Ord(Head(s)) < Ord(Head(t))
    ELSE StrLess(Tail(s), Tail(t))

(* One step of a stable sort of <<key, value>> pairs: the pair goes after
   the pairs whose key is not greater *)
RECURSIVE InsertSorted(_, _)
InsertSorted(seq, e) ==
    IF seq = << >> THEN << e >>
    ELSE IF StrLess(e[1], Head(seq)[1]) THEN << e >> \o seq
    ELSE << Head(seq) >> \o InsertSorted(Tail(seq), e)

(* sorted(...) of <<key, value>> pairs by key: stable *)
RECURSIVE SortedPairs(_)
SortedPairs(seq) ==
    IF seq = << >> THEN << >>
    ELSE InsertSorted(SortedPairs(SubSeq(seq, 1, Len(seq) - 1)), seq[Len(seq)])

(* a fetch_catalog_data that returns the entries in the order of arrival *)
SortedCatalogArrival(data) == data

(* sorted(catalog_data, key=lambda entry: entry["assetId"]) *)
SortedCatalog(data) ==
    LET sorted == SortedPairs([k \in DOMAIN data |-> << data[k].assetId, data[k] >>])
    IN  [k \in DOMAIN sorted |-> sorted[k][2]]

(* os.listdir: the names in some order *)
RECURSIVE ListDir(_)
ListDir(names) ==
    IF names = {} THEN << >>
    ELSE LET x == CHOOSE y \in names : TRUE
         IN  << x >> \o ListDir(names \ {x})

(* sorted(os.listdir(...)) *)
SortedNames(names) ==
    LET listed == ListDir(names)
        sorted == SortedPairs([k \in DOMAIN listed |-> << listed[k], listed[k] >>])
    IN  [k \in DOMAIN sorted |-> sorted[k][2]]

-----------------------------------------------------------------------------
(* The category exclusion list (module excluded_categories) *)

EXCLUDED_CATEGORIES == { << "Terrain" >> }

(* the dict get_asset_data returns (catalog_infos, which no later step of
   build.py reads, is left out) *)
Entry(asset, zip_url, color_filename) ==
    [ assetId               |-> asset.assetId,
      category              |-> asset.category,
      zip_url               |-> zip_url,
      in_zip_color_filename |-> color_filename,
      image_filename        |-> asset.assetId \o << ".jpg" >> ]

(* zip_url.split("=")[-1] *)
UrlFileName(zip_url) == zip_url[Len(zip_url)]

(* category_path / zip_url.split("=")[-1], relative to ORIGINAL_IMAGES_PATH *)
FilePath(entry) == << entry.category, UrlFileName(entry.zip_url) >>

(* zip_file_response.content[0:2] *)
FileHeader(content) == SubSeq(content, 1, Min(2, Len(content)))

(* bytes.decode('utf-8') of the header: raises on bytes that are not UTF-8,
   as those a JPEG or PNG file starts with *)
Decodes(header) == \A i \in DOMAIN header : header[i] \notin {"0xFF", "0x89"}

(* file_header == 'PK' *)
Valid(content) == FileHeader(content) = << "P", "K" >>

(* zipfile.ZipFile(src_path) opens the archive only if it finds the end of
   central directory record, which a truncated file has lost *)
ZipFileOpens(content) == Len(content) > 0 /\ content[Len(content)] = "EOCD"

(* re.sub("\.zip", "", zip_file_path) *)
TexturePath(zip_file_path) == SelectSeq(zip_file_path, LAMBDA t : t # ".zip")

(* path.exists() *)
Exists(fs, path) == path \in DOMAIN fs

(* a write that never reaches the disk *)
WriteFileLost(fs, path, content) == fs

(* open(path, "wb").write(content) *)
WriteFile(fs, path, content) ==
    [p \in (DOMAIN fs) \cup {path} |-> IF p = path THEN content ELSE fs[p]]

(* an unzip_images that visits the archives of the entries of the list *)
ListArchivesOfCatalog(category_paths, fs) ==
    SelectSeq([k \in DOMAIN catalog_data |-> FilePath(catalog_data[k])],
              LAMBDA p : p \in DOMAIN fs)

(* the archives unzip_images visits: sorted categories, then sorted names *)
RECURSIVE ListArchives(_, _)
ListArchives(category_paths, fs) ==
    IF category_paths = << >> THEN << >>
    ELSE LET category_path == Head(category_paths)
             zip_file_paths == SortedNames({p[2] : p \in
                                 {q \in DOMAIN fs : q[1] = category_path}})
         IN  [k \in DOMAIN zip_file_paths |->
                 << category_path, zip_file_paths[k] >>]
             \o ListArchives(Tail(category_paths), fs)

-----------------------------------------------------------------------------
(* The inputs *)

SeqsUpTo(S, n) == UNION {[1..k -> S] : k \in 0..n}

Categories == { << "Wood" >>, << "Terrain" >> }

FileNames ==
    { << "x_", "Color", ".", "jpg" >>, << "x_", "Normal", ".", "jpg" >>,
      << "x_", "Normal", ".", "png" >>, << "x_", "Albedo", ".", "jpg" >> }

(* the download link of an archive: "https://ambientcg.com/get?file=<name>.zip" *)
Link(name) == << << "https://ambientcg.com/get?file" >>, name \o << ".zip" >> >>

OptionQualities == {15, 16, 17}

(* --quality: the default, and below and above the 16 of line 103 *)
StartQualities == {1, 15, 17}

(* Download options of the records the resolver is checked on: a first
   option of any quality and format, with or without a zipContent, and a
   second JPG option with at most one file *)
FirstOptions ==
    { [attribute |-> << q, "K-", e >>, downloadLink |-> Link(<< "a", "1" >>),
       zipContent |-> c] :
        q \in OptionQualities, e \in {"JPG", "PNG"},
        c \in SeqsUpTo(FileNames, MaxContents) }
    \cup
    { [attribute |-> << q, "K-", e >>, downloadLink |-> Link(<< "a", "1" >>)] :
        q \in OptionQualities, e \in {"JPG", "PNG"} }

SecondOptions ==
    { [attribute |-> << q, "K-", "JPG" >>, downloadLink |-> Link(<< "a", "2" >>),
       zipContent |-> c] :
        q \in OptionQualities, c \in SeqsUpTo(FileNames, 1) }

ResolverAssets ==
    [ assetId : { << "a", "1" >> }, category : Categories,
      downloads : { << >> } \cup { << o >> : o \in FirstOptions }
                  \cup { << o, p >> : o \in FirstOptions, p \in SecondOptions } ]

(* A record with one JPG archive of the given quality holding a colour map,
   and a record with no download option *)
GoodAsset(id, category, q) ==
    [ assetId |-> id, category |-> category,
      downloads |-> << [attribute |-> << q, "K-", "JPG" >>,
                        downloadLink |-> Link(id),
                        zipContent |-> << << "x_", "Color", ".", "jpg" >> >>] >> ]

BareAsset(id, category) ==
    [ assetId |-> id, category |-> category, downloads |-> << >> ]

CatalogAssets ==
    { GoodAsset(<< "b", "1" >>, << "Wood" >>, 16),
      GoodAsset(<< "a", "2" >>, << "Wood" >>, 17),
      GoodAsset(<< "a", "1" >>, << "Terrain" >>, 16),
      BareAsset(<< "a", "1" >>, << "Wood" >>) }

Catalogs == SeqsUpTo(SeqsUpTo(CatalogAssets, MaxPageLen), MaxPages)

(* the page the remote returns for an offset: none once the catalog is exhausted *)
FoundAssets(rem, off) ==
    LET k == (off \div JSON_BATCH_SIZE) + 1
    IN  IF k <= Len(rem) THEN rem[k] ELSE << >>

(* what a GET of an archive link may return: a well-formed archive, an
   archive cut short, an error page, an image, nothing *)
Payloads ==
    { << "P", "K", "data", "EOCD" >>, << "P", "K", "data" >>,
      << "<", "html", ">" >>, << "0xFF", "0xD8", "data" >>, << >> }

(* what requests.get of an archive link brings: an exception (no response),
   or a response with a payload.  A call that sends no request is logged
   with no response. *)
NoResponse == [failed |-> TRUE, content |-> << >>]

Responses ==
    { NoResponse } \cup { [failed |-> FALSE, content |-> c] : c \in Payloads }

Options(image_type, q, ignore_missing, no_image_cache, download, unzip) ==
    [ image_type |-> image_type, quality |-> q, ignore_missing |-> ignore_missing,
      no_image_cache |-> no_image_cache, download |-> download, unzip |-> unzip ]

NoFiles == [p \in {} |-> << >>]

-----------------------------------------------------------------------------
(* The state at the start of a run with the given command line, remote
   catalog and files on disk: build_texture_lib has called fetch_catalog_data,
   which is about to send its first request *)
StartRun(opts, rem, fs, ds, n) ==
    /\ remote = rem
    /\ options = opts
    /\ pc = "fetch"
    /\ exit_status = -1
    /\ offset = 0
    /\ last_fetch_count = 1
    /\ page = << >>
    /\ idx = 0
    /\ quality = opts.quality
    /\ ret = << None, None >>
    /\ catalog_data = << >>
    /\ requests_log = << >>
    /\ probes = << >>
    /\ resolve_log = << >>
    /\ di = 0
    /\ retry = 0
    /\ dl_log = << >>
    /\ originals = fs
    /\ dirs = ds
    /\ zip_list = << >>
    /\ unzip_log = << >>
    /\ textures = {}
    /\ version_writes = 0
    /\ runs = n

-----------------------------------------------------------------------------
(* fetch_catalog_data *)

(* One iteration of the while loop of line 162 up to the for loop: the
   request for the page at offset.  A request that fails, or whose answer is
   not the expected JSON, raises out of build_texture_lib: the run ends with
   a traceback.  A page without records ends the loop (lines 186-191). *)
FetchPage ==
    /\ pc = "fetch"
    /\ last_fetch_count # 0
    /\ \E failed \in BOOLEAN :
        IF failed
        THEN /\ pc' = "crashed"
             /\ exit_status' = 1
             /\ UNCHANGED << page, idx, quality, probes, last_fetch_count,
                             offset, catalog_data, requests_log >>
        ELSE LET found == FoundAssets(remote, offset)
             IN  /\ requests_log' = Append(requests_log, offset)
                 /\ page' = found
                 /\ IF found = << >>
                    THEN /\ last_fetch_count' = 0
                         /\ offset' = offset + JSON_BATCH_SIZE
                         /\ catalog_data' = SortedCatalog(catalog_data)
                         /\ pc' = "fetched"
                         /\ UNCHANGED << idx, quality, probes >>
                    ELSE /\ idx' = 1
                         /\ quality' = options.quality
                         /\ probes' = << >>
                         /\ pc' = "zip_url"
                         /\ UNCHANGED << last_fetch_count, offset, catalog_data >>
                 /\ UNCHANGED exit_status
    /\ UNCHANGED << remote, options, ret, resolve_log, di, retry, dl_log,
                    originals, dirs, zip_list, unzip_log, textures,
                    version_writes, runs >>

(* One invocation of get_asset_zip_url on the current record, at quality:
   the match of this quality is returned; without one the function calls
   itself at quality + 1 while quality < 16, and after that either exits the
   process (exit() of line 109 raises SystemExit, which the except clause of
   line 183 does not catch, and ends the process with status 0) or returns
   (None, None). *)
GetAssetZipUrl ==
    /\ pc = "zip_url"
    /\ LET found == ScanDownloads(page[idx], options.image_type, quality)
       IN  /\ probes' = Append(probes, quality)
           /\ IF Truthy(found[2])
              THEN /\ ret' = found
                   /\ pc' = "asset_data"
                   /\ UNCHANGED << quality, exit_status >>
              ELSE IF quality < MAX_QUALITY
              THEN /\ quality' = quality + 1
                   /\ UNCHANGED << ret, pc, exit_status >>
              ELSE IF ~options.ignore_missing
              THEN /\ pc' = "exited"
                   /\ exit_status' = 0
                   /\ UNCHANGED << ret, quality >>
              ELSE /\ ret' = << None, None >>
                   /\ pc' = "asset_data"
                   /\ UNCHANGED << quality, exit_status >>
    /\ UNCHANGED << remote, options, offset, last_fetch_count, page, idx,
                    catalog_data, requests_log, resolve_log, di, retry,
                    dl_log, originals, dirs, zip_list, unzip_log, textures,
                    version_writes, runs >>

(* get_asset_data without the check of line 121 *)
AssetOutcomeUnchecked(asset, zip_url) ==
    IF asset.category \in EXCLUDED_CATEGORIES THEN "Excluded category"
    ELSE "entry"

(* get_asset_data without the check of line 124 *)
AssetOutcomeNoExclusion(asset, zip_url) ==
    IF ~Truthy(zip_url) THEN "No zip url found"
    ELSE "entry"

(* what get_asset_data does with the pair get_asset_zip_url returned *)
AssetOutcome(asset, zip_url) ==
    IF ~Truthy(zip_url) THEN "No zip url found"
    ELSE IF asset.category \in EXCLUDED_CATEGORIES THEN "Excluded category"
    ELSE "entry"

(* a fetch loop that advances the offset by two pages after a page *)
GetAssetDataSkipsPage ==
    /\ pc = "asset_data"
    /\ LET asset == page[idx]
           outcome == AssetOutcome(asset, ret[1])
       IN  /\ catalog_data' =
                 IF outcome = "entry"
                 THEN Append(catalog_data, Entry(asset, ret[1], ret[2]))
                 ELSE catalog_data
           /\ resolve_log' = Append(resolve_log,
                 [asset |-> asset, outcome |-> outcome, probes |-> probes,
                  offset |-> offset])
    /\ IF idx < Len(page)
       THEN /\ idx' = idx + 1
            /\ quality' = options.quality
            /\ probes' = << >>
            /\ pc' = "zip_url"
            /\ UNCHANGED << last_fetch_count, offset >>
       ELSE /\ last_fetch_count' = Len(page)
            /\ offset' = offset + 2 * JSON_BATCH_SIZE
            /\ pc' = "fetch"
            /\ UNCHANGED << idx, quality, probes >>
    /\ UNCHANGED << remote, options, exit_status, page, ret, requests_log,
                    di, retry, dl_log, originals, dirs, zip_list, unzip_log,
                    textures, version_writes, runs >>

(* The rest of get_asset_data (lines 121-142) for the current record, the
   append or the except clause of fetch_catalog_data (lines 178-184), and
   the step of the for loop; after the last record of the page, the end of
   the iteration of the while loop (lines 186-189, TOTAL_LIMIT is None). *)
GetAssetData ==
    /\ pc = "asset_data"
    /\ LET asset == page[idx]
           outcome == AssetOutcome(asset, ret[1])
       IN  /\ catalog_data' =
                 IF outcome = "entry"
                 THEN Append(catalog_data, Entry(asset, ret[1], ret[2]))
                 ELSE catalog_data
           /\ resolve_log' = Append(resolve_log,
                 [asset |-> asset, outcome |-> outcome, probes |-> probes,
                  offset |-> offset])
    /\ IF idx < Len(page)
       THEN /\ idx' = idx + 1
            /\ quality' = options.quality
            /\ probes' = << >>
            /\ pc' = "zip_url"
            /\ UNCHANGED << last_fetch_count, offset >>
       ELSE /\ last_fetch_count' = Len(page)
            /\ offset' = offset + JSON_BATCH_SIZE
            /\ pc' = "fetch"
            /\ UNCHANGED << idx, quality, probes >>
    /\ UNCHANGED << remote, options, exit_status, page, ret, requests_log,
                    di, retry, dl_log, originals, dirs, zip_list, unzip_log,
                    textures, version_writes, runs >>

-----------------------------------------------------------------------------
(* build_texture_lib, download_images, unzip_images *)

(* a build_texture_lib that runs the download pass whatever --download is *)
EnterDownloadAlways ==
    /\ pc = "fetched"
    /\ IF catalog_data # << >>
       THEN pc' = "download" /\ di' = 1 /\ retry' = 0
       ELSE pc' = "downloaded" /\ UNCHANGED << di, retry >>
    /\ UNCHANGED << remote, options, exit_status, offset, last_fetch_count,
                    page, idx, quality, ret, catalog_data, requests_log,
                    probes, resolve_log, dl_log, originals, dirs, zip_list,
                    unzip_log, textures, version_writes, runs >>

(* Lines 274-276: get_version, which changes nothing, then the download
   pass if --download was given *)
EnterDownload ==
    /\ pc = "fetched"
    /\ IF options.download /\ catalog_data # << >>
       THEN pc' = "download" /\ di' = 1 /\ retry' = 0
       ELSE pc' = "downloaded" /\ UNCHANGED << di, retry >>
    /\ UNCHANGED << remote, options, exit_status, offset, last_fetch_count,
                    page, idx, quality, ret, catalog_data, requests_log,
                    probes, resolve_log, dl_log, originals, dirs, zip_list,
                    unzip_log, textures, version_writes, runs >>

(* download_image without the cache check of line 205 *)
DownloadOutcomeNoCache(entry, fs, no_image_cache, response) ==
    IF response.failed THEN "NETWORK"
    ELSE IF ~Decodes(FileHeader(response.content)) THEN "UNDECODABLE"
    ELSE IF ~Valid(response.content) THEN "INVALID"
    ELSE "LOAD"

(* download_image without the check of lines 216-222 *)
DownloadOutcomeUnchecked(entry, fs, no_image_cache, response) ==
    IF ~no_image_cache /\ Exists(fs, FilePath(entry)) THEN "EXIST"
    ELSE IF response.failed THEN "NETWORK"
    ELSE "LOAD"

(* what a call of download_image comes to, given what the GET of line 211
   brings: "EXIST" (the file is there and the cache is on: False returned,
   no request sent), "NETWORK" (requests.get raised), "UNDECODABLE" (the
   decode of line 216 raised), "INVALID" (the exception of line 222), "LOAD"
   (the file is written, True returned) *)
DownloadOutcome(entry, fs, no_image_cache, response) ==
    IF ~no_image_cache /\ Exists(fs, FilePath(entry)) THEN "EXIST"
    ELSE IF response.failed THEN "NETWORK"
    ELSE IF ~Decodes(FileHeader(response.content)) THEN "UNDECODABLE"
    ELSE IF ~Valid(response.content) THEN "INVALID"
    ELSE "LOAD"

(* a driver that gives up on an entry after an invalid payload *)
NewRetryInvalidFinal(outcome, old_retry) ==
    IF outcome \in {"EXIST", "LOAD", "INVALID", "UNDECODABLE"} THEN MAX_RETRY
    ELSE old_retry + 1

(* a driver that does not count the failed attempts *)
NewRetryUncounted(outcome, old_retry) ==
    IF outcome \in {"EXIST", "LOAD"} THEN MAX_RETRY ELSE old_retry

(* retry after a call of download_image: 2 once it returned (line 239),
   one more after an exception (line 243) *)
NewRetry(outcome, old_retry) ==
    IF outcome \in {"EXIST", "LOAD"} THEN MAX_RETRY ELSE old_retry + 1

(* One pass of the while loop of lines 236-243: one call of download_image
   on the current entry, and the retry count after it; after the last call
   for the last entry the pass is over.  The log keeps whether the call sent
   the request and what came back. *)
DownloadImage ==
    /\ pc = "download"
    /\ \E response \in Responses :
        LET entry == catalog_data[di]
            outcome == DownloadOutcome(entry, originals,
                                       options.no_image_cache, response)
            new_retry == NewRetry(outcome, retry)
        IN  /\ (outcome = "EXIST" => response = NoResponse)
            /\ dirs' = dirs \cup {entry.category}
            /\ originals' = IF outcome = "LOAD"
                            THEN WriteFile(originals, FilePath(entry),
                                           response.content)
                            ELSE originals
            /\ dl_log' = Append(dl_log,
                  [entry |-> di, outcome |-> outcome,
                   requested |-> (outcome # "EXIST"), response |-> response])
            /\ IF new_retry < MAX_RETRY
               THEN retry' = new_retry /\ UNCHANGED << di, pc >>
               ELSE IF di < Len(catalog_data)
               THEN di' = di + 1 /\ retry' = 0 /\ UNCHANGED pc
               ELSE pc' = "downloaded" /\ retry' = new_retry /\ UNCHANGED di
    /\ UNCHANGED << remote, options, exit_status, offset, last_fetch_count,
                    page, idx, quality, ret, catalog_data, requests_log,
                    probes, resolve_log, zip_list, unzip_log, textures,
                    version_writes, runs >>

(* Lines 277-278 and 262: the extraction pass starts if --unzip was given,
   over the category directories found under ORIGINAL_IMAGES_PATH *)
EnterUnzip ==
    /\ pc = "downloaded"
    /\ LET archives == ListArchives(SortedNames(dirs), originals)
       IN  IF options.unzip /\ archives # << >>
           THEN pc' = "unzip" /\ zip_list' = archives
           ELSE pc' = "unzipped" /\ UNCHANGED zip_list
    /\ UNCHANGED << remote, options, exit_status, offset, last_fetch_count,
                    page, idx, quality, ret, catalog_data, requests_log,
                    probes, resolve_log, di, retry, dl_log, originals, dirs,
                    unzip_log, textures, version_writes, runs >>

(* One call of unzip_image (line 270) on the next archive: the destination
   directory is made, then the archive is extracted into it.  zipfile raises
   on a file it cannot open, and nothing in unzip_images or
   build_texture_lib catches it, so the run ends with a traceback. *)
UnzipImage ==
    /\ pc = "unzip"
    /\ LET archive == Head(zip_list)
           dst_path == << archive[1], TexturePath(archive[2]) >>
       IN  /\ textures' = textures \cup {dst_path}
           /\ IF ZipFileOpens(originals[archive])
              THEN /\ unzip_log' = Append(unzip_log, archive)
                   /\ zip_list' = Tail(zip_list)
                   /\ pc' = IF Tail(zip_list) = << >> THEN "unzipped" ELSE "unzip"
                   /\ UNCHANGED exit_status
              ELSE /\ pc' = "crashed"
                   /\ exit_status' = 1
                   /\ UNCHANGED << unzip_log, zip_list >>
    /\ UNCHANGED << remote, options, offset, last_fetch_count, page, idx,
                    quality, ret, catalog_data, requests_log, probes,
                    resolve_log, di, retry, dl_log, originals, dirs,
                    version_writes, runs >>

(* a build_texture_lib that writes the version before the passes as well *)
WriteVersionEarly ==
    /\ pc = "unzipped" \/ (pc = "fetched" /\ version_writes = 0)
    /\ version_writes' = version_writes + 1
    /\ pc' = IF pc = "unzipped" THEN "done" ELSE pc
    /\ exit_status' = IF pc = "unzipped" THEN 0 ELSE exit_status
    /\ UNCHANGED << remote, options, offset, last_fetch_count, page, idx,
                    quality, ret, catalog_data, requests_log, probes,
                    resolve_log, di, retry, dl_log, originals, dirs, zip_list,
                    unzip_log, textures, runs >>

(* Line 279: write_version, and the end of the run *)
WriteVersion ==
    /\ pc = "unzipped"
    /\ version_writes' = version_writes + 1
    /\ pc' = "done"
    /\ exit_status' = 0
    /\ UNCHANGED << remote, options, offset, last_fetch_count, page, idx,
                    quality, ret, catalog_data, requests_log, probes,
                    resolve_log, di, retry, dl_log, originals, dirs, zip_list,
                    unzip_log, textures, runs >>

-----------------------------------------------------------------------------
(* Interruption *)

(* The process is killed while download_image writes the file (lines
   224-225): open(file_path, "wb") has made or emptied the file and only
   the first bytes of the payload have reached it. *)
KillDuringWrite ==
    /\ pc = "download"
    /\ \E response \in Responses :
        LET entry == catalog_data[di]
        IN  /\ DownloadOutcome(entry, originals, options.no_image_cache,
                               response) = "LOAD"
            /\ \E written \in 0..(Len(response.content) - 1) :
                 originals' = WriteFile(originals, FilePath(entry),
                                        SubSeq(response.content, 1, written))
            /\ dirs' = dirs \cup {entry.category}
            /\ dl_log' = Append(dl_log,
                  [entry |-> di, outcome |-> "KILLED", requested |-> TRUE,
                   response |-> response])
    /\ pc' = "killed"
    /\ exit_status' = 137
    /\ UNCHANGED << remote, options, offset, last_fetch_count, page, idx,
                    quality, ret, catalog_data, requests_log, probes,
                    resolve_log, di, retry, zip_list, unzip_log, textures,
                    version_writes, runs >>

(* The program is started again, with the same command line, on the files
   the interrupted run left *)
NewRun ==
    /\ pc = "killed"
    /\ runs < MaxRuns
    /\ runs' = runs + 1
    /\ pc' = "fetch"
    /\ exit_status' = -1
    /\ offset' = 0
    /\ last_fetch_count' = 1
    /\ page' = << >>
    /\ idx' = 0
    /\ quality' = options.quality
    /\ ret' = << None, None >>
    /\ catalog_data' = << >>
    /\ requests_log' = << >>
    /\ probes' = << >>
    /\ resolve_log' = << >>
    /\ di' = 0
    /\ retry' = 0
    /\ dl_log' = << >>
    /\ zip_list' = << >>
    /\ unzip_log' = << >>
    /\ version_writes' = 0
    /\ UNCHANGED << remote, options, originals, dirs, textures >>

-----------------------------------------------------------------------------
(* Specifications *)

(* The resolver on one record: every record of ResolverAssets, image type,
   starting quality and ignore_missing *)
InitResolver ==
    \E asset \in ResolverAssets, image_type \in {"jpg", "PNG"},
       q \in StartQualities, ignore_missing \in BOOLEAN :
        StartRun(Options(image_type, q, ignore_missing, FALSE, FALSE, FALSE),
                 << << asset >> >>, NoFiles, {}, 1)

(* The catalog fetch on every remote catalog within the bounds *)
InitCatalog ==
    \E rem \in Catalogs, q \in StartQualities, ignore_missing \in BOOLEAN :
        StartRun(Options("jpg", q, ignore_missing, FALSE, FALSE, FALSE),
                 rem, NoFiles, {}, 1)

NextCatalog == FetchPage \/ GetAssetZipUrl \/ GetAssetData

SpecResolver == InitResolver /\ [][NextCatalog]_vars

SpecCatalog == InitCatalog /\ [][NextCatalog]_vars

(* The catalog fetch on records that resolve at the requested quality, with
   the asset ids in every order and repeated, and a record without an
   archive: a first page of several records, then pages of one record *)
SortAssets ==
    { GoodAsset(<< "a", "1" >>, << "Wood" >>, 16),
      GoodAsset(<< "a", "2" >>, << "Wood" >>, 16),
      GoodAsset(<< "b", "1" >>, << "Wood" >>, 16),
      BareAsset(<< "b", "2" >>, << "Wood" >>) }

SortCatalogs ==
    { << first >> \o rest :
        first \in [1..(MaxPageLen + 1) -> SortAssets],
        rest \in SeqsUpTo([1..1 -> SortAssets], MaxPages) }

InitSort ==
    \E rem \in SortCatalogs, ignore_missing \in BOOLEAN :
        StartRun(Options("jpg", 16, ignore_missing, FALSE, FALSE, FALSE),
                 rem, NoFiles, {}, 1)

SpecSort == InitSort /\ [][NextCatalog]_vars

(* Whole runs, on a few remote catalogs, with every combination of the
   flags, on an empty disk or on an archive an earlier run left *)
RunCatalogs ==
    { << << GoodAsset(<< "b", "1" >>, << "Wood" >>, 16) >>,
         << GoodAsset(<< "a", "2" >>, << "Wood" >>, 16) >> >>,
      << << GoodAsset(<< "a", "2" >>, << "Wood" >>, 16),
            GoodAsset(<< "a", "2" >>, << "Wood" >>, 16) >> >>,
      << << GoodAsset(<< "a", "1" >>, << "Terrain" >>, 16),
            BareAsset(<< "a", "1" >>, << "Wood" >>),
            GoodAsset(<< "a", "2" >>, << "Wood" >>, 16) >> >> }

LeftArchive == << << "Wood" >>, << "a", "1", ".zip" >> >>

(* the archive of the record a2, downloaded by an earlier run *)
CachedArchive == << << "Wood" >>, << "a", "2", ".zip" >> >>

(* an archive in a second category directory, left by an earlier run *)
OtherArchive == << << "Terrain" >>, << "b", "1", ".zip" >> >>

InitialDisks ==
    { [files |-> NoFiles, dirs |-> {}],
      [files |-> [p \in {LeftArchive} |-> << "P", "K", "data", "EOCD" >>],
       dirs |-> { << "Wood" >> }],
      [files |-> [p \in {CachedArchive} |-> << "P", "K", "data", "EOCD" >>],
       dirs |-> { << "Wood" >> }],
      [files |-> [p \in {LeftArchive, OtherArchive} |->
                     << "P", "K", "data", "EOCD" >>],
       dirs |-> { << "Wood" >>, << "Terrain" >> }] }

Init ==
    \E rem \in RunCatalogs, disk \in InitialDisks,
       ignore_missing \in BOOLEAN, no_image_cache \in BOOLEAN,
       download \in BOOLEAN, unzip \in BOOLEAN :
        StartRun(Options("jpg", 16, ignore_missing, no_image_cache,
                         download, unzip),
                 rem, disk.files, disk.dirs, 1)

Next ==
    \/ FetchPage
    \/ GetAssetZipUrl
    \/ GetAssetData
    \/ EnterDownload
    \/ DownloadImage
    \/ EnterUnzip
    \/ UnzipImage
    \/ WriteVersion

Spec == Init /\ [][Next]_vars /\ WF_vars(Next)

NextKilled == Next \/ KillDuringWrite \/ NewRun

SpecKilled == Init /\ [][NextKilled]_vars

-----------------------------------------------------------------------------
(* Properties of the resolver: check_file and get_asset_zip_url *)

Last(seq) == seq[Len(seq)]

ColorSuffix == << "Color", ".", Lower(options.image_type) >>

NormalSuffix == << "Normal", ".", Lower(options.image_type) >>

(* the file name ends in one of the four candidate suffixes *)
IsCandidate(filename) ==
    \/ EndsWith(filename, ColorSuffix)
    \/ EndsWith(filename, NormalSuffix)
    \/ EndsWith(filename, << "Normal", ".", "png" >>)
    \/ EndsWith(filename, << "var1", ".", Lower(options.image_type) >>)

(* positions of the candidate files in a contents list *)
CandidatePositions(contents) ==
    {i \in DOMAIN contents : IsCandidate(contents[i])}

(* the options of a record with the tag of quality q and a candidate file *)
MatchingOptions(asset, q) ==
    {k \in DOMAIN asset.downloads :
        /\ asset.downloads[k].attribute =
              << q, "K-", Upper(options.image_type) >>
        /\ CandidatePositions(ZipContent(asset.downloads[k])) # {}}

Least(S) == CHOOSE i \in S : \A j \in S : i <= j

(* get_asset_zip_url has returned a match to get_asset_data *)
Returned == pc = "asset_data" /\ Truthy(ret[2])

(* the contents of the option the returned match was taken from: the first
   option with the tag of the quality of the match and a candidate file *)
ReturnedContents ==
    LET asset == page[idx]
    IN  ZipContent(asset.downloads[Least(MatchingOptions(asset, quality))])

HoldsColorAndNormal(contents) ==
    /\ \E i \in DOMAIN contents : EndsWith(contents[i], ColorSuffix)
    /\ \E i \in DOMAIN contents : EndsWith(contents[i], NormalSuffix)

(* C1 as stated: whenever the contents of the option a match is taken from
   hold a Color.{ext} file and a Normal.{ext} file, in either order, the
   returned file is the Color.{ext} file. *)
C1_SuffixOrderDecides ==
    (Returned /\ HoldsColorAndNormal(ReturnedContents))
        => EndsWith(ret[2], ColorSuffix)

(* C1, amended: the order of the archive contents decides, not the order of
   the suffix list.  When the contents hold a Color.{ext} file and a
   Normal.{ext} file, the Color.{ext} file is returned exactly when no file
   ending in a candidate suffix precedes the first Color.{ext} file. *)
C1_ContentOrderDecides ==
    (Returned /\ HoldsColorAndNormal(ReturnedContents))
        => LET contents == ReturnedContents
               firstColor == Least({i \in DOMAIN contents :
                                      EndsWith(contents[i], ColorSuffix)})
           IN  EndsWith(ret[2], ColorSuffix)
                 <=> (\A i \in 1..(firstColor - 1) : ~IsCandidate(contents[i]))

(* a match taken from contents in which a Normal.{ext} file precedes the
   Color.{ext} file *)
C1_Witness ==
    /\ Returned
    /\ HoldsColorAndNormal(ReturnedContents)
    /\ EndsWith(ReturnedContents[1], NormalSuffix)
    /\ ~EndsWith(ret[2], ColorSuffix)

(* C2: if the record has an option with the tag of the requested quality and
   a candidate file in its contents, get_asset_zip_url returns the link of
   the first such option and the earliest candidate file of its contents. *)
C2_EarliestCandidate ==
    (pc = "asset_data" /\ MatchingOptions(page[idx], options.quality) # {})
        => LET asset == page[idx]
               option == asset.downloads[
                            Least(MatchingOptions(asset, options.quality))]
               contents == ZipContent(option)
           IN  ret = << option.downloadLink,
                        contents[Least(CandidatePositions(contents))] >>

(* a match at the requested quality from contents with two different
   candidate files *)
C2_Witness ==
    /\ Returned
    /\ quality = options.quality
    /\ \E i, j \in CandidatePositions(ReturnedContents) :
          i < j /\ ReturnedContents[i] # ReturnedContents[j]
                /\ ret[2] = ReturnedContents[i]

(* the record being resolved is in an excluded category *)
CurrentExcluded ==
    pc \in {"zip_url", "asset_data", "exited"}
        /\ page[idx].category \in EXCLUDED_CATEGORIES

(* C3 as stated: a record of an excluded category always ends in the
   Excluded outcome, whatever its download options and ignore_missing are:
   the run does not stop on it, and its download options are not scanned
   before the outcome is reached. *)
C3_ExcludedShortCircuits ==
    /\ ~(pc = "exited" /\ CurrentExcluded)
    /\ \A k \in DOMAIN resolve_log :
          resolve_log[k].asset.category \in EXCLUDED_CATEGORIES
             => /\ resolve_log[k].outcome = "Excluded category"
                /\ resolve_log[k].probes = << >>

-----------------------------------------------------------------------------
(* Properties of the fallback search and of the missing records *)

(* the qualities of the fallback search: from the starting quality up to top *)
HasMatchAt(asset, q) == MatchingOptions(asset, q) # {}

NoMatchUpTo(asset, top) ==
    \A q \in options.quality..top : ~HasMatchAt(asset, q)

(* the records of the remote catalog the fetch loop reaches: those of the
   pages before the first empty page *)
RECURSIVE RecordsBeforeEmpty(_)
RecordsBeforeEmpty(rem) ==
    IF rem = << >> \/ Head(rem) = << >> THEN << >>
    ELSE Head(rem) \o RecordsBeforeEmpty(Tail(rem))

(* the records get_asset_data has returned or raised for, in order *)
ResolvedRecords == [k \in DOMAIN resolve_log |-> resolve_log[k].asset]

(* the search for the current record has ended without a match *)
NotFound == pc = "exited" \/ (pc = "asset_data" /\ ~Truthy(ret[2]))

SearchInOrder ==
    \* the qualities are probed in increasing order from the starting one,
    \* none skipped, none above max(starting quality, 16)
    /\ probes = [k \in 1..Len(probes) |-> options.quality + k - 1]
    /\ \A k \in DOMAIN probes : probes[k] <= Max(options.quality, 16)
    \* a match is that of the lowest probed quality that has one
    /\ Returned
          => /\ Last(probes) = quality
             /\ HasMatchAt(page[idx], quality)
             /\ \A q \in options.quality..(quality - 1) :
                   ~HasMatchAt(page[idx], q)
             /\ ret[1] = page[idx].downloads[
                   Least(MatchingOptions(page[idx], quality))].downloadLink
    \* NotFound comes only after the last quality was probed without a match
    /\ NotFound
          => /\ Last(probes) = Max(options.quality, 16)
             /\ \A q \in options.quality..Max(options.quality, 16) :
                   ~HasMatchAt(page[idx], q)

(* the qualities the search may still probe after the current one *)
Remaining == Max(options.quality, 16) - quality

(* a step from one invocation of get_asset_zip_url to the one it calls *)
SearchStep ==
    (pc = "zip_url" /\ pc' = "zip_url")
        => /\ page' = page /\ idx' = idx
           /\ 0 <= Remaining' /\ Remaining' < Remaining

(* C5: the fallback search of get_asset_zip_url ends for every record and
   starting quality: each nested call has fewer qualities left to probe, and
   never fewer than none.  It probes the
   qualities in increasing order from the starting one and none above
   max(starting quality, 16), returns the match of the lowest probed quality
   that has one, and reports NotFound only after the last quality was probed
   without a match. *)
C5_SearchEnds ==
    /\ [] SearchInOrder
    /\ [] (pc = "zip_url" => idx \in DOMAIN page /\ Remaining >= 0)
    /\ [][SearchStep]_vars

(* a search from below 16 that fell back at least once and ended at 16,
   with a match or without *)
C5_Witness ==
    /\ pc \in {"asset_data", "exited"}
    /\ options.quality < 16
    /\ Last(probes) = 16

(* What C4 says of the records that are missing up to the quality top *)
MissingHandled(top) ==
    \* a missing record is never resolved when ignore_missing is off, and
    \* is dropped with "No zip url found" when it is on
    /\ \A k \in DOMAIN resolve_log :
          NoMatchUpTo(resolve_log[k].asset, top)
             => /\ options.ignore_missing
                /\ resolve_log[k].outcome = "No zip url found"
    \* the entries are those of the records that resolved: none for a
    \* missing record
    /\ Len(catalog_data) =
          Cardinality({k \in DOMAIN resolve_log :
                          resolve_log[k].outcome = "entry"})
    \* ignore_missing on: the run does not stop, and once the fetch is over
    \* every record of the catalog was resolved, in order
    /\ (options.ignore_missing => pc # "exited")
    /\ (options.ignore_missing /\ pc = "fetched"
           => ResolvedRecords = RecordsBeforeEmpty(remote))
    \* ignore_missing off: the run stops at the first missing record, the
    \* records before it are the only ones resolved, and a catalog with a
    \* missing record is never fetched to its end
    /\ (pc = "exited"
           => /\ ~options.ignore_missing
              /\ NoMatchUpTo(page[idx], top)
              /\ RecordsBeforeEmpty(remote)[Len(resolve_log) + 1] = page[idx]
              /\ \A k \in DOMAIN resolve_log :
                    ~NoMatchUpTo(resolve_log[k].asset, top))
    /\ (~options.ignore_missing /\ pc = "fetched"
           => \A k \in DOMAIN ResolvedRecords :
                 ~NoMatchUpTo(ResolvedRecords[k], top))

(* C4 as stated: the records with no match at any quality from the starting
   quality up to 16 *)
C4_MissingUpTo16 == MissingHandled(16)

(* C4, amended: the records with no match at any quality from the starting
   quality up to max(starting quality, 16): with ignore_missing the record
   is dropped and every later record is still resolved; without it the run
   stops there, no later record is resolved and no entry is emitted. *)
C4_MissingUpToLastProbed == MissingHandled(Max(options.quality, 16))

(* a run that dropped a missing record and resolved a later one into an
   entry, and a run that stopped at a missing record after an earlier entry *)
C4_WitnessIgnored ==
    /\ options.ignore_missing
    /\ pc = "fetched"
    /\ \E j, k \in DOMAIN resolve_log :
          /\ j < k
          /\ NoMatchUpTo(resolve_log[j].asset, Max(options.quality, 16))
          /\ resolve_log[k].outcome = "entry"

C4_WitnessStopped ==
    /\ pc = "exited"
    /\ Len(RecordsBeforeEmpty(remote)) > Len(resolve_log) + 1

-----------------------------------------------------------------------------
(* Properties of the download pass: download_image and download_images *)

(* the calls of download_image made for the entry at index e *)
CallsFor(e) == {k \in DOMAIN dl_log : dl_log[k].entry = e}

FirstCall(k) == \A j \in 1..(k - 1) : dl_log[j].entry # dl_log[k].entry

(* the outcomes of a call whose payload does not start with the magic bytes *)
IntegrityFailures == {"INVALID", "UNDECODABLE"}

(* the driver has left the entry of call k, the last call so far *)
MovedOn(k) ==
    pc # "download" \/ di = dl_log[k].entry + 1

PassOver ==
    \/ pc \in {"downloaded", "unzip", "unzipped", "done"}
    \/ pc = "crashed" /\ zip_list # << >>

AttemptsBounded ==
    \* at most two calls for an entry, none after one that returned
    /\ \A e \in DOMAIN catalog_data : Cardinality(CallsFor(e)) <= 2
    /\ \A k \in DOMAIN dl_log :
          dl_log[k].outcome \in {"EXIST", "LOAD"}
             => \A j \in (k + 1)..Len(dl_log) : dl_log[j].entry # dl_log[k].entry
    \* the entries are visited in the order of the list, none skipped
    /\ \A k \in 1..(Len(dl_log) - 1) :
          dl_log[k + 1].entry \in {dl_log[k].entry, dl_log[k].entry + 1}
    /\ (dl_log # << >> => dl_log[1].entry = 1)
    \* once the pass is over every entry of the list had its call
    /\ (PassOver /\ options.download
           => \A e \in DOMAIN catalog_data : CallsFor(e) # {})

(* the calls the pass may still make: two for each later entry, and what is
   left of the two of the current one *)
CallsLeft == 2 * (Len(catalog_data) - di) + (2 - retry)

PassStep ==
    (pc = "download" /\ pc' = "download")
        => 0 < CallsLeft' /\ CallsLeft' < CallsLeft

(* C7: download_image is called at most twice for an entry and not again
   after a call that returned; when both calls fail the pass goes on to the
   next entry; the pass reaches the end of the list (each call leaves fewer
   calls to make, and the pass ends after the last). *)
C7_TwoAttempts ==
    /\ [] AttemptsBounded
    /\ [] (pc = "download" => di \in DOMAIN catalog_data /\ retry \in {0, 1})
    /\ [][PassStep]_vars

(* a finished pass in which both calls for an entry failed and a later
   entry was downloaded *)
C7_Witness ==
    /\ PassOver
    /\ \E e \in DOMAIN catalog_data :
          /\ Cardinality(CallsFor(e)) = 2
          /\ \A k \in CallsFor(e) :
                dl_log[k].outcome \in {"NETWORK"} \cup IntegrityFailures
          /\ \E k \in CallsFor(e + 1) : dl_log[k].outcome = "LOAD"

-----------------------------------------------------------------------------
(* Properties of the extraction pass *)

(* C8 as stated: an archive that cannot be opened does not end the
   extraction pass: the run never ends with archives left to visit, and a
   finished pass has extracted every archive on disk that can be opened. *)
C8_CorruptArchiveSkipped ==
    /\ ~(pc = "crashed" /\ zip_list # << >>)
    /\ (options.unzip /\ pc \in {"unzipped", "done"}
           => \A p \in DOMAIN originals :
                 ZipFileOpens(originals[p])
                    => \E k \in DOMAIN unzip_log : unzip_log[k] = p)

-----------------------------------------------------------------------------
(* Properties of the files download_image writes *)

(* the step is a call of download_image that has ended *)
DownloadCall == Len(dl_log') = Len(dl_log) + 1 /\ pc = "download"

StartsWithMagic(content) ==
    Len(content) >= 2 /\ content[1] = "P" /\ content[2] = "K"

(* C9: a call of download_image that receives a payload not starting with
   the magic bytes fails with an exception (that of line 222, or that of
   the decode of line 216) and leaves every file
   as it was: a destination that did not exist still does not, one that
   existed keeps its content. *)
C9_InvalidPayloadLeavesFile ==
    [][ (/\ DownloadCall
         /\ Last(dl_log').requested
         /\ ~Last(dl_log').response.failed
         /\ ~StartsWithMagic(Last(dl_log').response.content))
          => /\ Last(dl_log').outcome \in IntegrityFailures
             /\ originals' = originals ]_vars

(* a forced refresh of a file written earlier in the pass received an
   invalid payload *)
C9_Witness ==
    /\ options.no_image_cache
    /\ \E j, k \in DOMAIN dl_log :
          /\ j < k
          /\ dl_log[j].outcome = "LOAD"
          /\ dl_log[k].outcome \in IntegrityFailures
          /\ FilePath(catalog_data[dl_log[j].entry])
                = FilePath(catalog_data[dl_log[k].entry])

(* C10 as stated: a file found at the destination by the cache check holds
   a complete payload that passed the check of the magic bytes, also in a
   run that follows a run killed during the write. *)
C10_CachedFileIsComplete ==
    \A k \in DOMAIN dl_log :
        dl_log[k].outcome = "EXIST"
            => LET content == originals[FilePath(catalog_data[dl_log[k].entry])]
               IN  content \in Payloads /\ StartsWithMagic(content)

-----------------------------------------------------------------------------
(* Properties of the archive cache of download_image *)

(* C11: a call of download_image that finds the destination file of its
   entry, with no_image_cache off, returns the cached result (False, after
   "EXIST"): it sends no request, and leaves every file and directory under
   the originals root as it was. *)
C11_CacheHitIsSilent ==
    [][ (/\ pc = "download"
         /\ dl_log' # dl_log
         /\ ~options.no_image_cache
         /\ Exists(originals, FilePath(catalog_data[di])))
          => /\ Last(dl_log').outcome = "EXIST"
             /\ ~Last(dl_log').requested
             /\ Last(dl_log').response = NoResponse
             /\ originals' = originals
             /\ dirs' = dirs ]_vars

(* the first call of the pass found the archive an earlier run had
   downloaded, and the file still holds what that run wrote *)
C11_Witness ==
    /\ dl_log # << >>
    /\ dl_log[1].outcome = "EXIST"
    /\ FilePath(catalog_data[1]) = CachedArchive
    /\ originals[CachedArchive] = << "P", "K", "data", "EOCD" >>

(* calls j and k of download_image have the same destination *)
SameDestination(j, k) ==
    FilePath(catalog_data[dl_log[j].entry]) = FilePath(catalog_data[dl_log[k].entry])

(* the requests call k sent *)
Requests(k) == IF dl_log[k].requested THEN 1 ELSE 0

(* C12 as stated: with no_image_cache off, two consecutive calls of
   download_image on the same destination send exactly one request in
   total, whatever the remote answers. *)
C12_TwoCallsOneRequest ==
    ~options.no_image_cache
        => \A k \in 1..(Len(dl_log) - 1) :
              SameDestination(k, k + 1) => Requests(k) + Requests(k + 1) = 1

(* C12, amended: with no_image_cache off, of two consecutive calls of
   download_image on the same destination the second sends no request when
   the first returned; the two send one request in total when the first
   wrote the file, and none when the first found it.  When the first failed,
   the second sends the request again. *)
C12_SecondCallAfterSuccessIsSilent ==
    ~options.no_image_cache
        => \A k \in 1..(Len(dl_log) - 1) :
              SameDestination(k, k + 1)
                 => IF dl_log[k].outcome \in {"LOAD", "EXIST"}
                    THEN /\ dl_log[k + 1].outcome = "EXIST"
                         /\ Requests(k + 1) = 0
                         /\ Requests(k) + Requests(k + 1)
                               = (IF dl_log[k].outcome = "LOAD" THEN 1 ELSE 0)
                    ELSE Requests(k) + Requests(k + 1) = 2

(* a call that wrote the file, followed by a call for another entry with
   the same destination *)
C12_Witness ==
    /\ ~options.no_image_cache
    /\ \E k \in 1..(Len(dl_log) - 1) :
          /\ SameDestination(k, k + 1)
          /\ dl_log[k].entry # dl_log[k + 1].entry
          /\ dl_log[k].outcome = "LOAD"
          /\ dl_log[k + 1].outcome = "EXIST"

-----------------------------------------------------------------------------
(* Properties of build_texture_lib *)

(* the catalog fetch has finished: the loop has seen the empty page and
   every record before it went through get_asset_data *)
FetchOver ==
    /\ last_fetch_count = 0
    /\ ResolvedRecords = RecordsBeforeEmpty(remote)

(* the download pass has finished, if it was asked for: every entry had its
   calls, the last of them returned or was the second *)
DownloadOver ==
    options.download
        => \A e \in DOMAIN catalog_data :
              /\ CallsFor(e) # {}
              /\ LET k == CHOOSE i \in CallsFor(e) : \A j \in CallsFor(e) : j <= i
                 IN  \/ dl_log[k].outcome \in {"EXIST", "LOAD"}
                     \/ Cardinality(CallsFor(e)) = MAX_RETRY

(* the extraction pass has finished, if it was asked for: every archive on
   disk was extracted *)
ExtractionOver ==
    options.unzip
        => unzip_log = ListArchives(SortedNames(dirs), originals)

(* the run was aborted by a fatal condition *)
Aborted == pc \in {"crashed", "exited"}

(* C13: write_version is called at most once in a run; it has been called
   exactly when the run has completed, and then the catalog fetch, the
   download pass and the extraction pass have finished; it is the last step
   of the run; a run aborted in any phase has not called it. *)
C13_VersionWrittenOnceAtEnd ==
    /\ [] (version_writes \in {0, 1})
    /\ [] (version_writes = 1 <=> pc = "done")
    /\ [] (Aborted => version_writes = 0)
    /\ [] (pc = "done" => FetchOver /\ DownloadOver /\ ExtractionOver)
    /\ [][ version_writes' # version_writes
             => pc = "unzipped" /\ pc' = "done" /\ version_writes' = 1 ]_vars
    /\ [][ version_writes = 0 ]_vars

(* a completed run that downloaded and extracted an archive and then wrote
   the version *)
C13_Witness ==
    /\ pc = "done"
    /\ version_writes = 1
    /\ \E k \in DOMAIN dl_log : dl_log[k].outcome = "LOAD"
    /\ unzip_log # << >>

(* a run aborted in the extraction pass, after a download *)
C13_WitnessAborted ==
    /\ pc = "crashed"
    /\ zip_list # << >>
    /\ dl_log # << >>
    /\ version_writes = 0

-----------------------------------------------------------------------------
(* Properties of the list fetch_catalog_data returns *)

(* fetch_catalog_data has returned its list *)
CatalogReturned == pc = "fetched"

(* C14 as stated: the returned list holds at most one entry for an asset
   id, whatever pages the remote returns. *)
C14_OneEntryPerAssetId ==
    CatalogReturned
        => \A i, j \in DOMAIN catalog_data :
              catalog_data[i].assetId = catalog_data[j].assetId => i = j

(* the get_asset_data calls that returned an entry *)
Resolved == {k \in DOMAIN resolve_log : resolve_log[k].outcome = "entry"}

(* the entry call k of get_asset_data returned: that of the match at the
   last quality it probed *)
ResolvedEntry(k) ==
    LET asset == resolve_log[k].asset
        found == ScanDownloads(asset, options.image_type,
                               Last(resolve_log[k].probes))
    IN  Entry(asset, found[1], found[2])

(* C15: the returned list is in ascending order of asset id, and holds the
   entries of the records that resolved, each as many times as it was
   resolved: the sort drops none and adds none. *)
C15_SortedSameEntries ==
    CatalogReturned
        => /\ \A i \in 1..(Len(catalog_data) - 1) :
                 ~StrLess(catalog_data[i + 1].assetId, catalog_data[i].assetId)
           /\ Len(catalog_data) = Cardinality(Resolved)
           /\ \A k \in Resolved :
                 Cardinality({i \in DOMAIN catalog_data :
                                 catalog_data[i] = ResolvedEntry(k)})
                   = Cardinality({j \in Resolved :
                                     ResolvedEntry(j) = ResolvedEntry(k)})

(* a returned list of three entries with different asset ids, of records
   that arrived in descending order of id on two pages, after a record that
   did not resolve *)
C15_Witness ==
    /\ CatalogReturned
    /\ Cardinality({catalog_data[i].assetId : i \in DOMAIN catalog_data}) = 3
    /\ \A j, k \in Resolved :
          j < k => StrLess(resolve_log[k].asset.assetId,
                           resolve_log[j].asset.assetId)
    /\ \E k \in DOMAIN resolve_log : k \notin Resolved
    /\ Len(requests_log) > 2

(* C16: no entry of the list has an excluded category, while the list is
   built and when it is returned: get_asset_data never returns an entry for
   a record of an excluded category, whatever its download options are. *)
C16_NoExcludedEntry ==
    /\ \A i \in DOMAIN catalog_data :
          catalog_data[i].category \notin EXCLUDED_CATEGORIES
    /\ \A k \in DOMAIN resolve_log :
          resolve_log[k].asset.category \in EXCLUDED_CATEGORIES
             => resolve_log[k].outcome # "entry"

(* a returned list without the record of an excluded category that has an
   archive with a candidate file at the requested quality *)
C16_Witness ==
    /\ CatalogReturned
    /\ catalog_data = << >>
    /\ \E k \in DOMAIN resolve_log :
          /\ resolve_log[k].asset.category \in EXCLUDED_CATEGORIES
          /\ resolve_log[k].outcome = "Excluded category"
          /\ HasMatchAt(resolve_log[k].asset, options.quality)

-----------------------------------------------------------------------------
(* Properties of the fetch loop *)

(* the requests sent so far asked for the offsets 0, 100, 200, ... *)
OffsetsInOrder ==
    requests_log = [k \in 1..Len(requests_log) |-> (k - 1) * JSON_BATCH_SIZE]

(* the number of the first page of the remote without records *)
FirstEmptyPage(rem) ==
    CHOOSE k \in 1..(Len(rem) + 1) :
        /\ FoundAssets(rem, (k - 1) * JSON_BATCH_SIZE) = << >>
        /\ \A j \in 1..(k - 1) : FoundAssets(rem, (j - 1) * JSON_BATCH_SIZE) # << >>

(* a request answered by a page without records is the last one, and the
   loop has ended with it *)
StopsAtEmpty ==
    /\ \A k \in DOMAIN requests_log :
          FoundAssets(remote, requests_log[k]) = << >>
             => k = Len(requests_log) /\ CatalogReturned
    /\ Len(requests_log) <= FirstEmptyPage(remote)
    /\ CatalogReturned => Len(requests_log) = FirstEmptyPage(remote)

(* the records went through the resolver in the order of the pages, each
   once: those resolved so far, the one being resolved, and all of them
   once the loop has ended *)
EachRecordOnce ==
    LET records == RecordsBeforeEmpty(remote)
    IN  /\ Len(resolve_log) <= Len(records)
        /\ ResolvedRecords = SubSeq(records, 1, Len(resolve_log))
        /\ \A k \in DOMAIN resolve_log :
              resolve_log[k].offset \in
                 {requests_log[j] : j \in DOMAIN requests_log}
        /\ (pc \in {"zip_url", "asset_data", "exited"}
               => page[idx] = records[Len(resolve_log) + 1])
        /\ (CatalogReturned => ResolvedRecords = records)

(* an iteration of the while loop begins with one request, for the next
   offset *)
LoopStep ==
    (pc = "fetch" /\ pc' # "crashed")
        => /\ requests_log' = Append(requests_log, offset)
           /\ offset = Len(requests_log) * JSON_BATCH_SIZE

(* C17: the fetch loop asks for the offsets 0, pageSize, 2*pageSize, ... in
   this order, none skipped or repeated; the request answered by the first
   page without records is the last, so the loop makes no more requests
   than the remote has pages before its first empty one, plus one; every
   record of the pages before it goes through the resolver once, in order. *)
C17_OffsetsAndStop ==
    /\ [] OffsetsInOrder
    /\ [] StopsAtEmpty
    /\ [] EachRecordOnce
    /\ [][LoopStep]_vars

(* a loop that ended at its third request, after two pages with a record,
   and a loop that ended at an empty page before a page with a record *)
C17_Witness ==
    /\ CatalogReturned
    /\ requests_log = << 0, JSON_BATCH_SIZE, 2 * JSON_BATCH_SIZE >>
    /\ Len(resolve_log) = 2

C17_WitnessEmptyFirst ==
    /\ CatalogReturned
    /\ Len(requests_log) < Len(remote)
    /\ remote[Len(remote)] # << >>

-----------------------------------------------------------------------------
(* Properties of the end of the run *)

(* C18 as stated: a run ended by a fatal condition (a failed catalog
   request, a record without an archive when ignore_missing is off) ends
   with an exit status that is not 0; a run that completes ends with exit
   status 0, whatever records and downloads failed on its way. *)
C18_FatalExitsNonZero ==
    /\ (Aborted => exit_status > 0)
    /\ (pc = "done" => exit_status = 0)

(* the catalog fetch is behind the run *)
PastFetch ==
    pc \in {"fetched", "download", "downloaded", "unzip", "unzipped", "done"}

(* the steps of build_texture_lib after the fetch: a pass that was not
   asked for is stepped over, the extraction pass has fewer archives left
   after each, and write_version follows the passes *)
DriverStep ==
    /\ (pc = "fetched"
           => pc' = IF options.download /\ catalog_data # << >>
                    THEN "download" ELSE "downloaded")
    /\ (pc = "downloaded"
           => pc' \in IF options.unzip THEN {"unzip", "unzipped"}
                      ELSE {"unzipped"})
    /\ (pc = "unzip" /\ pc' = "unzip" => Len(zip_list') < Len(zip_list))
    /\ (pc = "unzipped" => pc' = "done" /\ version_writes' = 1)

(* C19: with --download off download_image is never called, so no archive
   request is sent, and no step of the run changes a file or a directory
   under the originals root; with --unzip off no archive is extracted and
   no directory is made under the textures root; with every combination of
   the two flags the run goes from the fetch, with every record resolved,
   over the passes that are off to write_version. *)
C19_PassesToggle ==
    /\ [] (~options.download => dl_log = << >> /\ di = 0)
    /\ [][ ~options.download => originals' = originals /\ dirs' = dirs ]_vars
    /\ [] (~options.unzip
              => unzip_log = << >> /\ zip_list = << >> /\ textures = {})
    /\ [] (PastFetch => FetchOver)
    /\ [][DriverStep]_vars

(* a run with both flags off that resolved an entry and wrote the version,
   with the archive of an earlier run on disk left alone *)
C19_Witness ==
    /\ pc = "done"
    /\ version_writes = 1
    /\ ~options.download /\ ~options.unzip
    /\ catalog_data # << >>
    /\ DOMAIN originals # {}

(* completed runs with one of the flags on and with both *)
C19_WitnessDownloadOnly ==
    /\ pc = "done"
    /\ options.download /\ ~options.unzip
    /\ \E k \in DOMAIN dl_log : dl_log[k].outcome = "LOAD"

C19_WitnessUnzipOnly ==
    /\ pc = "done"
    /\ ~options.download /\ options.unzip
    /\ catalog_data # << >>
    /\ unzip_log # << >>

C19_WitnessBoth ==
    /\ pc = "done"
    /\ options.download /\ options.unzip
    /\ dl_log # << >>
    /\ unzip_log # << >>

-----------------------------------------------------------------------------
(* Properties of the archives the extraction pass visits *)

(* the extraction pass has started *)
InExtraction ==
    options.unzip /\ (pc \in {"unzip", "unzipped", "done"}
                        \/ (pc = "crashed" /\ zip_list # << >>))

(* the extraction pass has ended, every archive extracted *)
ExtractionEnded == options.unzip /\ pc \in {"unzipped", "done"}

(* archive p comes before archive q: by category, then by file name *)
ArchiveBefore(p, q) ==
    \/ StrLess(p[1], q[1])
    \/ p[1] = q[1] /\ StrLess(p[2], q[2])

(* C20: the archives the extraction pass extracts are the files under the
   category directories of the originals root, all of them and nothing
   else, in the order of the sorted categories and, within one, of the
   sorted file names: those extracted so far and those still to visit make
   up that list during the pass, and a pass that has ended has extracted
   the whole of it.  The list of entries has no part in it: an archive that
   belongs to no entry is extracted, an entry without a file on disk adds
   nothing. *)
C20_ExtractsWhatIsOnDisk ==
    /\ InExtraction
          => /\ unzip_log \o zip_list = ListArchives(SortedNames(dirs), originals)
             /\ {(unzip_log \o zip_list)[k] : k \in DOMAIN (unzip_log \o zip_list)}
                   = DOMAIN originals
             /\ \A i, j \in DOMAIN (unzip_log \o zip_list) :
                   i < j => ArchiveBefore((unzip_log \o zip_list)[i],
                                          (unzip_log \o zip_list)[j])
    /\ ExtractionEnded
          => /\ zip_list = << >>
             /\ {unzip_log[k] : k \in DOMAIN unzip_log} = DOMAIN originals
             /\ \A e \in DOMAIN catalog_data :
                   (\E k \in DOMAIN unzip_log : unzip_log[k] = FilePath(catalog_data[e]))
                      <=> FilePath(catalog_data[e]) \in DOMAIN originals

(* a pass that has ended and extracted the archives of two categories left
   by an earlier run, which belong to no entry, and the archive of an
   entry, but nothing for an entry whose two download calls failed *)
C20_Witness ==
    /\ ExtractionEnded
    /\ Len(unzip_log) = 3
    /\ unzip_log[1] = OtherArchive
    /\ unzip_log[2] = LeftArchive
    /\ \A e \in DOMAIN catalog_data :
          FilePath(catalog_data[e]) \notin {OtherArchive, LeftArchive}
    /\ \E e \in DOMAIN catalog_data :
          /\ Cardinality(CallsFor(e)) = MAX_RETRY
          /\ \A k \in DOMAIN unzip_log : unzip_log[k] # FilePath(catalog_data[e])
    /\ \E k \in DOMAIN dl_log :
          /\ dl_log[k].outcome = "LOAD"
          /\ unzip_log[Len(unzip_log)] = FilePath(catalog_data[dl_log[k].entry])

====
